---- MODULE Spec2Model ----
(***************************************************************************)
(* Model of the blackjack round logic of src/src/main.rs: the main loop    *)
(* (one step of the model is one iteration of `loop { ... }`), the four    *)
(* click handlers and the button test TextButton::click.                   *)
(***************************************************************************)
EXTENDS Integers, Sequences, FiniteSets, TLC

(***************************************************************************)
(* Bounds of the model.                                                    *)
(***************************************************************************)
\* A new round is dealt only while fewer than MaxWins rounds have been won
\* (rounds that end in a draw or without a winner are not counted).
MaxWins == 1

\* The card indices the model draws (a sample of what gen_range yields):
\* Two-of-hearts (2 points), Ten-of-hearts (10 points), Ace-of-hearts (11).
CardSample == {1, 32, 36}

(***************************************************************************)
(* The card table and the score table (main.rs 41-100), indexed from 0.    *)
(* A file name "assets/<rank>-of-<suit>.png" is the pair <<rank, suit>>.   *)
(***************************************************************************)
cards_vec ==
  <<
    <<"Two", "clubs">>, <<"Two", "hearts">>, <<"Two", "spades">>, <<"Two", "diamonds">>,
    <<"Three", "hearts">>, <<"Three", "diamonds">>, <<"Three", "clubs">>, <<"Three", "spades">>,
    <<"Four", "hearts">>, <<"Four", "diamonds">>, <<"Four", "clubs">>, <<"Four", "spades">>,
    <<"Five", "hearts">>, <<"Five", "diamonds">>, <<"Five", "clubs">>, <<"Five", "spades">>,
    <<"Six", "hearts">>, <<"Six", "diamonds">>, <<"Six", "spades">>, <<"Six", "clubs">>,
    <<"Seven", "hearts">>, <<"Seven", "diamonds">>, <<"Seven", "clubs">>, <<"Seven", "spades">>,
    <<"Eight", "hearts">>, <<"Eight", "diamonds">>, <<"Eight", "spades">>, <<"Eight", "clubs">>,
    <<"Nine", "hearts">>, <<"Nine", "diamonds">>, <<"Nine", "clubs">>, <<"Nine", "spades">>,
    <<"Ten", "hearts">>, <<"Ten", "diamonds">>, <<"Ten", "spades">>, <<"Ten", "clubs">>,
    <<"Ace", "hearts">>, <<"Ace", "diamonds">>, <<"Ace", "spades">>, <<"Ace", "clubs">>,
    <<"Jack", "hearts">>, <<"Jack", "diamonds">>, <<"Jack", "spades">>, <<"Jack", "clubs">>,
    <<"Queen", "hearts">>, <<"Queen", "diamonds">>, <<"Queen", "spades">>, <<"Queen", "clubs">>,
    <<"King", "hearts">>, <<"King", "diamonds">>, <<"King", "spades">>, <<"King", "clubs">>
  >>

\* cards.push("assets/empty.png"): the 53rd entry, lower-case "empty".
cards == [i \in 0..52 |-> IF i < 52 THEN cards_vec[i + 1] ELSE <<"empty", "">>]

\* The score table with the Aces counted as 1.
scores_vec_ace_one ==
  << 2, 2, 2, 2, 3, 3, 3, 3, 4, 4, 4, 4, 5, 5, 5, 5, 6, 6, 6, 6, 7, 7, 7, 7,
     8, 8, 8, 8, 9, 9, 9, 9, 10, 10, 10, 10, 1, 1, 1, 1, 10, 10, 10,
     10, 10, 10, 10, 10, 10, 10, 10, 10 >>

scores_vec ==
  << 2, 2, 2, 2, 3, 3, 3, 3, 4, 4, 4, 4, 5, 5, 5, 5, 6, 6, 6, 6, 7, 7, 7, 7,
     8, 8, 8, 8, 9, 9, 9, 9, 10, 10, 10, 10, 11, 11, 11, 11, 10, 10, 10,
     10, 10, 10, 10, 10, 10, 10, 10, 10 >>

\* scores.push(0)
scores == [i \in 0..52 |-> IF i < 52 THEN scores_vec[i + 1] ELSE 0]

\* "assets/Empty.png", the texture of a slot that holds no card.
Empty == <<"Empty", "">>

\* A range that includes its upper end.
gen_range_inclusive(low, high) == low .. high

(***************************************************************************)
(* rand::gen_range(low, high): an integer in low .. high-1.                *)
(***************************************************************************)
gen_range(low, high) == low .. (high - 1)

\* The draws of the model: gen_range(1, 52), cut down to the sample.
Draw == gen_range(1, 52) \cap CardSample

(***************************************************************************)
(* Label text.  A text is a sequence of characters; format!("{}", n) and   *)
(* str::parse::<i32>() are the decimal conversions.                        *)
(***************************************************************************)
DigitChar == <<"0", "1", "2", "3", "4", "5", "6", "7", "8", "9">>

RECURSIVE FormatNat(_)
FormatNat(n) ==
  IF n < 10 THEN <<DigitChar[n + 1]>>
  ELSE FormatNat(n \div 10) \o <<DigitChar[(n % 10) + 1]>>

\* format!("{}", n) of an i32
format(n) ==
  IF n >= 0 THEN FormatNat(n)
  ELSE LET l == (10 - (n % 10)) % 10
           q == 0 - ((n + l) \div 10)
       IN <<"-">> \o (IF q = 0 THEN <<>> ELSE FormatNat(q)) \o <<DigitChar[l + 1]>>

IsDigit(c) == \E d \in 0..9 : DigitChar[d + 1] = c

DigitVal(c) == CHOOSE d \in 0..9 : DigitChar[d + 1] = c

RECURSIVE DigitsVal(_)
DigitsVal(t) ==
  IF t = <<>> THEN 0
  ELSE 10 * DigitsVal(SubSeq(t, 1, Len(t) - 1)) + DigitVal(t[Len(t)])

RECURSIVE StripZeros(_)
StripZeros(t) ==
  IF Len(t) > 1 /\ t[1] = "0" THEN StripZeros(Tail(t)) ELSE t

\* Whether the digits d (no leading zeros) denote a value of at most
\* 2147483647, or 2147483648 when `neg`: the range of i32.
FitsI32(d, neg) ==
  \/ Len(d) <= 9
  \/ /\ Len(d) = 10
     /\ LET hi == DigitsVal(SubSeq(d, 1, 9))
            lo == DigitVal(d[10])
        IN hi < 214748364 \/ (hi = 214748364 /\ lo <= (IF neg THEN 8 ELSE 7))

\* parse::<i32>(): an optional sign, then at least one digit and nothing
\* else, and a value that fits 32 bits; anything else is an Err.
parse_i32(t) ==
  LET signed == t # <<>> /\ t[1] \in {"+", "-"}
      neg == signed /\ t[1] = "-"
      digits == IF signed THEN Tail(t) ELSE t
      wellformed == digits # <<>> /\ \A k \in 1..Len(digits) : IsDigit(digits[k])
      d == StripZeros(digits)
  IN IF wellformed /\ FitsI32(d, neg)
     THEN [ ok |-> TRUE,
            val |-> IF neg
                    THEN IF Len(d) = 10
                         THEN (0 - DigitsVal(SubSeq(d, 1, 9))) * 10 - DigitVal(d[10])
                         ELSE 0 - DigitsVal(d)
                    ELSE DigitsVal(d) ]
     ELSE [ok |-> FALSE, val |-> 0]

(***************************************************************************)
(* The state of main().                                                    *)
(***************************************************************************)
VARIABLES
  numofhits, playertotal, dealertotal,
  btn_deal, btn_hit, btn_stand, btn_replay,       \* the buttons' `enabled`
  lbl_winner, lbl_playerscore, lbl_dealerscore,
  lbl_playercounter, lbl_dealercounter,
  first_card, second_card, third_card, fourth_card, fifth_card,
  dealer_card1, dealer_card2, dealer_card3, dealer_card4, dealer_card5,
  running,     \* FALSE once the loop is left (Exit) or the program panicked
  panicked,    \* an unwrap() of a failed parse
  ev           \* what the last loop iteration did: the click, the handlers
               \* that ran and the card indices they used

vars ==
  << numofhits, playertotal, dealertotal, btn_deal, btn_hit, btn_stand,
     btn_replay, lbl_winner, lbl_playerscore, lbl_dealerscore,
     lbl_playercounter, lbl_dealercounter, first_card, second_card,
     third_card, fourth_card, fifth_card, dealer_card1, dealer_card2,
     dealer_card3, dealer_card4, dealer_card5, running, panicked, ev >>

State ==
  [ numofhits |-> numofhits, playertotal |-> playertotal,
    dealertotal |-> dealertotal, btn_deal |-> btn_deal, btn_hit |-> btn_hit,
    btn_stand |-> btn_stand, btn_replay |-> btn_replay,
    lbl_winner |-> lbl_winner, lbl_playerscore |-> lbl_playerscore,
    lbl_dealerscore |-> lbl_dealerscore,
    lbl_playercounter |-> lbl_playercounter,
    lbl_dealercounter |-> lbl_dealercounter,
    first_card |-> first_card, second_card |-> second_card,
    third_card |-> third_card, fourth_card |-> fourth_card,
    fifth_card |-> fifth_card, dealer_card1 |-> dealer_card1,
    dealer_card2 |-> dealer_card2, dealer_card3 |-> dealer_card3,
    dealer_card4 |-> dealer_card4, dealer_card5 |-> dealer_card5,
    running |-> running, panicked |-> panicked, ev |-> ev ]

SetState(s) ==
  /\ numofhits' = s.numofhits
  /\ playertotal' = s.playertotal
  /\ dealertotal' = s.dealertotal
  /\ btn_deal' = s.btn_deal
  /\ btn_hit' = s.btn_hit
  /\ btn_stand' = s.btn_stand
  /\ btn_replay' = s.btn_replay
  /\ lbl_winner' = s.lbl_winner
  /\ lbl_playerscore' = s.lbl_playerscore
  /\ lbl_dealerscore' = s.lbl_dealerscore
  /\ lbl_playercounter' = s.lbl_playercounter
  /\ lbl_dealercounter' = s.lbl_dealercounter
  /\ first_card' = s.first_card
  /\ second_card' = s.second_card
  /\ third_card' = s.third_card
  /\ fourth_card' = s.fourth_card
  /\ fifth_card' = s.fifth_card
  /\ dealer_card1' = s.dealer_card1
  /\ dealer_card2' = s.dealer_card2
  /\ dealer_card3' = s.dealer_card3
  /\ dealer_card4' = s.dealer_card4
  /\ dealer_card5' = s.dealer_card5
  /\ running' = s.running
  /\ panicked' = s.panicked
  /\ ev' = s.ev

NoEvent == [click |-> "none", ran |-> <<>>, drawn |-> <<>>]

\* The start with both counter labels created with an empty text.
Start_blank_counters ==
  [ numofhits |-> 0, playertotal |-> 0, dealertotal |-> 0,
    btn_deal |-> TRUE, btn_hit |-> FALSE, btn_stand |-> FALSE,
    btn_replay |-> TRUE, lbl_winner |-> "", lbl_playerscore |-> <<>>,
    lbl_dealerscore |-> <<>>, lbl_playercounter |-> <<>>,
    lbl_dealercounter |-> <<>>, first_card |-> Empty,
    second_card |-> Empty, third_card |-> Empty, fourth_card |-> Empty,
    fifth_card |-> Empty, dealer_card1 |-> Empty, dealer_card2 |-> Empty,
    dealer_card3 |-> Empty, dealer_card4 |-> Empty, dealer_card5 |-> Empty,
    running |-> TRUE, panicked |-> FALSE, ev |-> NoEvent ]

\* main.rs 102-130: every slot empty, Deal / Exit / Play Again enabled
\* (TextButton::new sets enabled = true), Hit and Stand disabled.
Start ==
  [ numofhits |-> 0, playertotal |-> 0, dealertotal |-> 0,
    btn_deal |-> TRUE, btn_hit |-> FALSE, btn_stand |-> FALSE,
    btn_replay |-> TRUE, lbl_winner |-> "", lbl_playerscore |-> <<>>,
    lbl_dealerscore |-> <<>>, lbl_playercounter |-> <<"0">>,
    lbl_dealercounter |-> <<"0">>, first_card |-> Empty,
    second_card |-> Empty, third_card |-> Empty, fourth_card |-> Empty,
    fifth_card |-> Empty, dealer_card1 |-> Empty, dealer_card2 |-> Empty,
    dealer_card3 |-> Empty, dealer_card4 |-> Empty, dealer_card5 |-> Empty,
    running |-> TRUE, panicked |-> FALSE, ev |-> NoEvent ]

Init ==
  /\ numofhits = Start.numofhits
  /\ playertotal = Start.playertotal
  /\ dealertotal = Start.dealertotal
  /\ btn_deal = Start.btn_deal
  /\ btn_hit = Start.btn_hit
  /\ btn_stand = Start.btn_stand
  /\ btn_replay = Start.btn_replay
  /\ lbl_winner = Start.lbl_winner
  /\ lbl_playerscore = Start.lbl_playerscore
  /\ lbl_dealerscore = Start.lbl_dealerscore
  /\ lbl_playercounter = Start.lbl_playercounter
  /\ lbl_dealercounter = Start.lbl_dealercounter
  /\ first_card = Start.first_card
  /\ second_card = Start.second_card
  /\ third_card = Start.third_card
  /\ fourth_card = Start.fourth_card
  /\ fifth_card = Start.fifth_card
  /\ dealer_card1 = Start.dealer_card1
  /\ dealer_card2 = Start.dealer_card2
  /\ dealer_card3 = Start.dealer_card3
  /\ dealer_card4 = Start.dealer_card4
  /\ dealer_card5 = Start.dealer_card5
  /\ running = Start.running
  /\ panicked = Start.panicked
  /\ ev = Start.ev

(***************************************************************************)
(* TextButton (text_button.rs).  The buttons of main.rs 111-118 are built  *)
(* with an opaque colour, so the whole rectangle takes the click.          *)
(***************************************************************************)
Rect(x, y, w, h) == [x |-> x, y |-> y, w |-> w, h |-> h]

\* Hit placed where Deal is.
rect_hit_on_deal == Rect(100, 350, 200, 65)

rect_exit == Rect(780, 0, 200, 65)
rect_deal == Rect(100, 350, 200, 65)
rect_hit == Rect(330, 350, 170, 65)
rect_stand == Rect(530, 350, 170, 65)
rect_replay == Rect(750, 350, 200, 65)

\* cached_rect.contains(mouse_pos): left and top edges belong to the
\* rectangle, right and bottom edges do not.
contains(r, p) ==
  /\ p[1] >= r.x
  /\ p[1] < r.x + r.w
  /\ p[2] >= r.y
  /\ p[2] < r.y + r.h

\* click with the `enabled` test left out.
click_ignores_enabled(rect, enabled, mouse, pressed) ==
  contains(rect, mouse) /\ pressed

\* TextButton::click: visible (never changed from true), hovered, enabled
\* and the left mouse button pressed in this frame.
click(rect, enabled, mouse, pressed) ==
  contains(rect, mouse) /\ enabled /\ pressed

\* The mouse positions the model tries: one inside each button, and one on
\* the right edge of Stand, which is outside every button.
MousePoints ==
  { <<880, 30>>, <<200, 380>>, <<415, 380>>, <<615, 380>>, <<850, 380>>,
    <<700, 380>> }

(***************************************************************************)
(* The steps of one loop iteration, as functions of the state record.      *)
(***************************************************************************)
Ran(s, name, used) ==
  [s EXCEPT !.ev.ran = Append(@, name), !.ev.drawn = @ \o used]

\* The loop without the gate at its top.
TopGate_none(s) == s

\* The gate with the conventional bust threshold.
TopGate_21(s) ==
  IF s.playertotal > 21 THEN [s EXCEPT !.btn_hit = FALSE] ELSE s

\* main.rs 136-138
TopGate(s) ==
  IF s.playertotal > 20 THEN [s EXCEPT !.btn_hit = FALSE] ELSE s

\* The deal adding to the total it finds (`+=` for `=`).
deal_playertotal_additive(s, random_card_1, random_card_2) ==
  s.playertotal + scores[random_card_1] + scores[random_card_2]

\* main.rs 145: playertotal = scores[random_card_1] + scores[random_card_2]
deal_playertotal(s, random_card_1, random_card_2) ==
  scores[random_card_1] + scores[random_card_2]

\* main.rs 152: dealertotal = scores[random_dealer_1]
deal_dealertotal(s, random_dealer_1) == scores[random_dealer_1]

\* The deal handler without `btn_replay.enabled = false`.
DealHandler_keeps_replay(s, random_card_1, random_card_2, random_dealer_1) ==
  LET pt == deal_playertotal(s, random_card_1, random_card_2)
      dt == deal_dealertotal(s, random_dealer_1)
  IN [ Ran(s, "deal", <<random_card_1, random_card_2, random_dealer_1>>)
       EXCEPT !.first_card = cards[random_card_1],
              !.second_card = cards[random_card_2],
              !.playertotal = pt,
              !.lbl_playerscore = format(pt),
              !.dealer_card1 = cards[random_dealer_1],
              !.dealertotal = dt,
              !.lbl_dealerscore = format(dt),
              !.btn_deal = FALSE,
              !.btn_hit = TRUE,
              !.btn_stand = TRUE ]

\* main.rs 142-158
DealHandler(s, random_card_1, random_card_2, random_dealer_1) ==
  LET pt == deal_playertotal(s, random_card_1, random_card_2)
      dt == deal_dealertotal(s, random_dealer_1)
  IN [ Ran(s, "deal", <<random_card_1, random_card_2, random_dealer_1>>)
       EXCEPT !.first_card = cards[random_card_1],
              !.second_card = cards[random_card_2],
              !.playertotal = pt,
              !.lbl_playerscore = format(pt),
              !.dealer_card1 = cards[random_dealer_1],
              !.dealertotal = dt,
              !.lbl_dealerscore = format(dt),
              !.btn_deal = FALSE,
              \* line 148 disables Hit when pt > 20, line 155 enables it again
              !.btn_hit = TRUE,
              !.btn_stand = TRUE,
              !.btn_replay = FALSE ]

\* The third hit treated like the second: no unconditional disable.
hit_enabled_nocap(n, pt, enabled) ==
  IF n = 1 THEN (IF pt > 22 THEN FALSE ELSE enabled)
  ELSE IF pt > 20 THEN FALSE
  ELSE enabled

\* btn_hit.enabled at the end of the hit handler, for the n-th hit with the
\* new player total pt (main.rs 166-168, 176-178, 180 and 184-186).
hit_enabled(n, pt, enabled) ==
  IF n = 1 THEN (IF pt > 22 THEN FALSE ELSE enabled)
  ELSE IF n = 2 THEN (IF pt > 20 THEN FALSE ELSE enabled)
  ELSE IF n = 3 THEN FALSE
  ELSE enabled

\* The hit handler with the second hit's card put in the fifth slot.
HitHandler_wrong_slot(s, random_card_3) ==
  LET n == s.numofhits + 1
      pt == s.playertotal + scores[random_card_3]
      s1 == [s EXCEPT !.numofhits = n]
      s2 == [ Ran(s1, "hit", <<random_card_3>>)
              EXCEPT !.playertotal = pt,
                     !.lbl_playerscore = format(pt),
                     !.btn_hit = hit_enabled(n, pt, @) ]
  IN IF n = 1 THEN [s2 EXCEPT !.third_card = cards[random_card_3]]
     ELSE IF n = 2 THEN [s2 EXCEPT !.fifth_card = cards[random_card_3]]
     ELSE IF n = 3 THEN [s2 EXCEPT !.fifth_card = cards[random_card_3]]
     ELSE Ran(s1, "hit", <<>>)

\* main.rs 159-188: numofhits grows first; a card is used only by the
\* branches for numofhits 1, 2 and 3.
HitHandler(s, random_card_3) ==
  LET n == s.numofhits + 1
      pt == s.playertotal + scores[random_card_3]
      s1 == [s EXCEPT !.numofhits = n]
      s2 == [ Ran(s1, "hit", <<random_card_3>>)
              EXCEPT !.playertotal = pt,
                     !.lbl_playerscore = format(pt),
                     !.btn_hit = hit_enabled(n, pt, @) ]
  IN IF n = 1 THEN [s2 EXCEPT !.third_card = cards[random_card_3]]
     ELSE IF n = 2 THEN [s2 EXCEPT !.fourth_card = cards[random_card_3]]
     ELSE IF n = 3 THEN [s2 EXCEPT !.fifth_card = cards[random_card_3]]
     ELSE Ran(s1, "hit", <<>>)

\* The dealer standing on 15 already.
DealerDraws_lt15(dt) == dt < 15

\* The dealer drawing on 16 as well.
DealerDraws_le(dt) == dt <= 16

\* One `if dealertotal < 16 { ... }` block of main.rs 197-211.
DealerDraws(dt) == dt < 16

\* main.rs 190-211: the dealer's second card, then up to three more.
DealerPlay(s, random_dealer_2, random_dealer_3, random_dealer_4, random_dealer_5) ==
  LET t2 == s.dealertotal + scores[random_dealer_2]
      s2 == [ Ran(s, "stand", <<random_dealer_2>>)
              EXCEPT !.dealer_card2 = cards[random_dealer_2],
                     !.dealertotal = t2,
                     !.lbl_dealerscore = format(t2) ]
      t3 == s2.dealertotal + scores[random_dealer_3]
      s3 == IF DealerDraws(s2.dealertotal)
            THEN [ s2 EXCEPT !.dealer_card3 = cards[random_dealer_3],
                             !.dealertotal = t3,
                             !.lbl_dealerscore = format(t3),
                             !.ev.drawn = Append(@, random_dealer_3) ]
            ELSE s2
      t4 == s3.dealertotal + scores[random_dealer_4]
      s4 == IF DealerDraws(s3.dealertotal)
            THEN [ s3 EXCEPT !.dealer_card4 = cards[random_dealer_4],
                             !.dealertotal = t4,
                             !.lbl_dealerscore = format(t4),
                             !.ev.drawn = Append(@, random_dealer_4) ]
            ELSE s3
      t5 == s4.dealertotal + scores[random_dealer_5]
      s5 == IF DealerDraws(s4.dealertotal)
            THEN [ s4 EXCEPT !.dealer_card5 = cards[random_dealer_5],
                             !.dealertotal = t5,
                             !.lbl_dealerscore = format(t5),
                             !.ev.drawn = Append(@, random_dealer_5) ]
            ELSE s4
  IN s5

\* i32 addition of 1, wrapping at i32::MAX.
add1_i32(v) == IF v = 2147483647 THEN (0 - 2147483647) - 1 ELSE v + 1

\* lbl.set_text(format!("{}", lbl.get_text().parse::<i32>().unwrap() + 1))
\* (main.rs 215, 218, 221, 224)
Bump(text) ==
  LET r == parse_i32(text)
  IN IF r.ok THEN [ok |-> TRUE, text |-> format(add1_i32(r.val))]
     ELSE [ok |-> FALSE, text |-> text]

\* A dealer win credited to the player's counter.
DealerWins_bumps_player(s) ==
  LET b == Bump(s.lbl_playercounter)
  IN IF b.ok
     THEN [s EXCEPT !.lbl_winner = "Dealer Wins!", !.lbl_playercounter = b.text]
     ELSE [s EXCEPT !.lbl_winner = "Dealer Wins!", !.panicked = TRUE,
                    !.running = FALSE]

DealerWins(s) ==
  LET b == Bump(s.lbl_dealercounter)
  IN IF b.ok
     THEN [s EXCEPT !.lbl_winner = "Dealer Wins!", !.lbl_dealercounter = b.text]
     ELSE [s EXCEPT !.lbl_winner = "Dealer Wins!", !.panicked = TRUE,
                    !.running = FALSE]

\* A player win that counts the win but sets no result text.
PlayerWins_no_label(s) ==
  LET b == Bump(s.lbl_playercounter)
  IN IF b.ok
     THEN [s EXCEPT !.lbl_playercounter = b.text]
     ELSE [s EXCEPT !.panicked = TRUE, !.running = FALSE]

PlayerWins(s) ==
  LET b == Bump(s.lbl_playercounter)
  IN IF b.ok
     THEN [s EXCEPT !.lbl_winner = "You Win!", !.lbl_playercounter = b.text]
     ELSE [s EXCEPT !.lbl_winner = "You Win!", !.panicked = TRUE,
                    !.running = FALSE]

\* The third rule with >= for >: equal totals go to the dealer.
Outcome_ge(pt, dt) ==
  IF pt > 21 /\ dt < 22 THEN "dealer"
  ELSE IF dt > 21 /\ pt < 22 THEN "player"
  ELSE IF dt >= pt /\ dt < 22 THEN "dealer"
  ELSE IF dt < pt /\ pt < 22 THEN "player"
  ELSE IF dt > 21 /\ pt > 21 THEN "nowinner"
  ELSE "draw"

\* The conditions of main.rs 213-229, in their order.
Outcome(pt, dt) ==
  IF pt > 21 /\ dt < 22 THEN "dealer"
  ELSE IF dt > 21 /\ pt < 22 THEN "player"
  ELSE IF dt > pt /\ dt < 22 THEN "dealer"
  ELSE IF dt < pt /\ pt < 22 THEN "player"
  ELSE IF dt > 21 /\ pt > 21 THEN "nowinner"
  ELSE "draw"

\* main.rs 213-229
Settlement(s) ==
  LET o == Outcome(s.playertotal, s.dealertotal)
  IN IF o = "dealer" THEN DealerWins(s)
     ELSE IF o = "player" THEN PlayerWins(s)
     ELSE IF o = "nowinner" THEN [s EXCEPT !.lbl_winner = "No Winner!"]
     ELSE [s EXCEPT !.lbl_winner = "Draw!"]

\* The flags after a stand, with the hit counter set back to 0 as well.
StandFlags_resets_hits(s) ==
  [s EXCEPT !.btn_hit = FALSE, !.btn_stand = FALSE, !.btn_replay = TRUE,
            !.numofhits = 0]

\* The flags after a stand with Hit left as it was.
StandFlags_keeps_hit(s) ==
  [s EXCEPT !.btn_stand = FALSE, !.btn_replay = TRUE]

\* The flags after a stand with Play Again left disabled.
StandFlags_no_replay(s) ==
  [s EXCEPT !.btn_hit = FALSE, !.btn_stand = FALSE]

\* The flags after a stand with Stand left enabled.
StandFlags_keeps_stand(s) ==
  [s EXCEPT !.btn_hit = FALSE, !.btn_replay = TRUE]

\* main.rs 231-233
StandFlags(s) ==
  [s EXCEPT !.btn_hit = FALSE, !.btn_stand = FALSE, !.btn_replay = TRUE]

\* main.rs 189-234; a panic in the settlement ends the program there.
StandHandler(s, random_dealer_2, random_dealer_3, random_dealer_4, random_dealer_5) ==
  LET d == DealerPlay(s, random_dealer_2, random_dealer_3, random_dealer_4,
                      random_dealer_5)
      r == Settlement(d)
  IN IF r.panicked THEN r ELSE StandFlags(r)

\* The replay that also sets both tallies back to "0".
ReplayHandler_resets_tally(s) ==
  [ Ran(s, "replay", <<>>)
    EXCEPT !.first_card = Empty,
           !.second_card = Empty,
           !.dealer_card1 = Empty,
           !.dealer_card2 = Empty,
           !.dealer_card3 = Empty,
           !.third_card = Empty,
           !.fourth_card = Empty,
           !.fifth_card = Empty,
           !.btn_deal = TRUE,
           !.btn_hit = FALSE,
           !.btn_stand = FALSE,
           !.lbl_playerscore = <<>>,
           !.lbl_dealerscore = <<>>,
           !.lbl_playercounter = <<"0">>,
           !.lbl_dealercounter = <<"0">>,
           !.numofhits = 0,
           !.lbl_winner = "" ]

\* The replay without `numofhits = 0`.
ReplayHandler_keeps_hits(s) ==
  [ Ran(s, "replay", <<>>)
    EXCEPT !.first_card = Empty,
           !.second_card = Empty,
           !.dealer_card1 = Empty,
           !.dealer_card2 = Empty,
           !.dealer_card3 = Empty,
           !.third_card = Empty,
           !.fourth_card = Empty,
           !.fifth_card = Empty,
           !.btn_deal = TRUE,
           !.btn_hit = FALSE,
           !.btn_stand = FALSE,
           !.lbl_playerscore = <<>>,
           !.lbl_dealerscore = <<>>,
           !.lbl_winner = "" ]

\* main.rs 235-251.  dealer_card4 and dealer_card5 are not among the slots
\* it empties, and playertotal / dealertotal / btn_replay are not assigned.
ReplayHandler(s) ==
  [ Ran(s, "replay", <<>>)
    EXCEPT !.first_card = Empty,
           !.second_card = Empty,
           !.dealer_card1 = Empty,
           !.dealer_card2 = Empty,
           !.dealer_card3 = Empty,
           !.third_card = Empty,
           !.fourth_card = Empty,
           !.fifth_card = Empty,
           !.btn_deal = TRUE,
           !.btn_hit = FALSE,
           !.btn_stand = FALSE,
           !.lbl_playerscore = <<>>,
           !.lbl_dealerscore = <<>>,
           !.numofhits = 0,
           !.lbl_winner = "" ]

(***************************************************************************)
(* One iteration of the loop (main.rs 132-270).  The handlers draw their   *)
(* own cards, so an iteration has a set of possible outcomes.  A handler   *)
(* is tested with the flags the handlers before it have left.              *)
(***************************************************************************)
\* The button the pressed mouse is on, for the record of the iteration.
Target(mouse, pressed) ==
  IF ~pressed THEN "none"
  ELSE IF contains(rect_exit, mouse) THEN "exit"
  ELSE IF contains(rect_deal, mouse) THEN "deal"
  ELSE IF contains(rect_hit, mouse) THEN "hit"
  ELSE IF contains(rect_stand, mouse) THEN "stand"
  ELSE IF contains(rect_replay, mouse) THEN "replay"
  ELSE "none"

\* random_card_1 and random_card_2 are drawn at the top of every iteration
\* (main.rs 134-135) and read by the deal handler alone.
DealStep(s, mouse, pressed) ==
  IF click(rect_deal, s.btn_deal, mouse, pressed)
  THEN { DealHandler(s, c1, c2, d1) : c1 \in Draw, c2 \in Draw, d1 \in Draw }
  ELSE {s}

HitStep(s, mouse, pressed) ==
  IF click(rect_hit, s.btn_hit, mouse, pressed)
  THEN { HitHandler(s, c3) : c3 \in Draw }
  ELSE {s}

\* The stand handler draws four cards (main.rs 190-193) and reads only
\* those its `if dealertotal < 16` blocks reach.  The outcomes of all draws
\* are the outcomes of the draws in which every card that is not read is
\* one fixed card.
UnreadCard == CHOOSE c \in Draw : TRUE

DealerDrawChoices(s) ==
  { q \in Draw \X Draw \X Draw \X Draw :
      LET t2 == s.dealertotal + scores[q[1]]
          t3 == IF DealerDraws(t2) THEN t2 + scores[q[2]] ELSE t2
          t4 == IF DealerDraws(t3) THEN t3 + scores[q[3]] ELSE t3
      IN /\ ~DealerDraws(t2) => q[2] = UnreadCard
         /\ ~DealerDraws(t3) => q[3] = UnreadCard
         /\ ~DealerDraws(t4) => q[4] = UnreadCard }

StandStep(s, mouse, pressed) ==
  IF click(rect_stand, s.btn_stand, mouse, pressed)
  THEN { StandHandler(s, q[1], q[2], q[3], q[4]) : q \in DealerDrawChoices(s) }
  ELSE {s}

ReplayStep(s, mouse, pressed) ==
  IF s.running /\ click(rect_replay, s.btn_replay, mouse, pressed)
  THEN {ReplayHandler(s)}
  ELSE {s}

\* `break` (main.rs 139-141) leaves the loop and main() returns: its locals
\* are gone.  The state of the ended program is this one record.
Exited ==
  [ numofhits |-> 0, playertotal |-> 0, dealertotal |-> 0,
    btn_deal |-> FALSE, btn_hit |-> FALSE, btn_stand |-> FALSE,
    btn_replay |-> FALSE, lbl_winner |-> "", lbl_playerscore |-> <<>>,
    lbl_dealerscore |-> <<>>, lbl_playercounter |-> <<>>,
    lbl_dealercounter |-> <<>>, first_card |-> Empty, second_card |-> Empty,
    third_card |-> Empty, fourth_card |-> Empty, fifth_card |-> Empty,
    dealer_card1 |-> Empty, dealer_card2 |-> Empty, dealer_card3 |-> Empty,
    dealer_card4 |-> Empty, dealer_card5 |-> Empty, running |-> FALSE,
    panicked |-> FALSE,
    ev |-> [click |-> "exit", ran |-> <<"exit">>, drawn |-> <<>>] ]

\* An iteration with the mouse at `mouse`: the gate at the top, then the
\* five click tests in the order of the source.
Step(mouse, pressed) ==
  /\ running
  /\ LET s0 == TopGate([State EXCEPT !.ev = [click |-> Target(mouse, pressed),
                                             ran |-> <<>>, drawn |-> <<>>]])
     IN IF click(rect_exit, TRUE, mouse, pressed)
        THEN SetState(Exited)
        ELSE \E s1 \in DealStep(s0, mouse, pressed) :
               \E s2 \in HitStep(s1, mouse, pressed) :
                 \E s3 \in StandStep(s2, mouse, pressed) :
                   \E s4 \in ReplayStep(s3, mouse, pressed) : SetState(s4)

\* The rounds won so far, which bound the model.
Wins ==
  parse_i32(lbl_playercounter).val + parse_i32(lbl_dealercounter).val

ExitClick ==
  \E p \in MousePoints : contains(rect_exit, p) /\ Step(p, TRUE)

\* A deal is accepted only while fewer than MaxWins rounds have been won.
DealClick ==
  /\ btn_deal => Wins < MaxWins
  /\ \E p \in MousePoints : contains(rect_deal, p) /\ Step(p, TRUE)

HitClick ==
  \E p \in MousePoints : contains(rect_hit, p) /\ Step(p, TRUE)

StandClick ==
  \E p \in MousePoints : contains(rect_stand, p) /\ Step(p, TRUE)

ReplayClick ==
  \E p \in MousePoints : contains(rect_replay, p) /\ Step(p, TRUE)

\* A frame without a click on a button: the mouse button is up, or it is
\* pressed outside every button.
NoClick ==
  \E p \in MousePoints, pressed \in BOOLEAN :
    Target(p, pressed) = "none" /\ Step(p, pressed)

Next ==
  \/ ExitClick
  \/ DealClick
  \/ HitClick
  \/ StandClick
  \/ ReplayClick
  \/ NoClick

Spec == Init /\ [][Next]_vars

(***************************************************************************)
(* Vocabulary of the properties.                                           *)
(***************************************************************************)
\* The round phase, read off the controls and the result label.
Phase ==
  IF ~running THEN "Exited"
  ELSE IF lbl_winner # "" /\ ~btn_deal /\ ~btn_stand THEN "Settled"
  ELSE IF lbl_winner = "" /\ btn_stand /\ ~btn_deal THEN "PlayerTurn"
  ELSE IF lbl_winner = "" /\ btn_deal /\ ~btn_stand THEN "Idle"
  ELSE IF lbl_winner = "" /\ ~btn_deal /\ ~btn_stand THEN "DealerTurn"
  ELSE "Undefined"

\* Whether the handler `name` ran in the iteration that led to this state.
Accepted(name) == \E k \in 1..Len(ev.ran) : ev.ran[k] = name

PlayerSlots == <<first_card, second_card, third_card, fourth_card, fifth_card>>

DealerSlots ==
  <<dealer_card1, dealer_card2, dealer_card3, dealer_card4, dealer_card5>>

PlayerCounter == parse_i32(lbl_playercounter).val

DealerCounter == parse_i32(lbl_dealercounter).val

\* The points of the cards q[from], ..., q[Len(q)].
RECURSIVE PointsFrom(_, _)
PointsFrom(q, from) ==
  IF from > Len(q) THEN 0 ELSE scores[q[from]] + PointsFrom(q, from + 1)

\* The largest total the settlement rules are tried on.
MaxTotal == 31

(***************************************************************************)
(* C1  The phase changes only Idle -> PlayerTurn by an accepted deal,      *)
(* PlayerTurn -> Settled by an accepted stand (the dealer's turn lies      *)
(* inside that one iteration) and Settled -> Idle by an accepted replay;   *)
(* the controls never show anything but one of these phases.               *)
(***************************************************************************)
C1_PhaseOrder ==
  [][ running' =>
        /\ Phase' \in {"Idle", "PlayerTurn", "Settled"}
        /\ Phase' # Phase =>
             \/ Phase = "Idle" /\ Phase' = "PlayerTurn" /\ ev'.ran = <<"deal">>
             \/ Phase = "PlayerTurn" /\ Phase' = "Settled" /\ ev'.ran = <<"stand">>
             \/ Phase = "Settled" /\ Phase' = "Idle" /\ ev'.ran = <<"replay">> ]_vars

\* A round that went all the way round: back in Idle by replay, after a
\* stand that had given the dealer a second card.
C1_Witness ==
  Phase = "Idle" /\ ev.ran = <<"replay">> /\ dealertotal >= 4

(***************************************************************************)
(* C2  The result shown is the first matching rule of the list: player     *)
(* bust alone -> dealer; dealer bust alone -> player; higher dealer total  *)
(* not bust -> dealer; higher player total not bust -> player; both bust   *)
(* -> no winner; otherwise draw.  Draw exactly for equal totals of at most *)
(* 21, and the six example pairs give the six stated results.              *)
(***************************************************************************)
C2_Rule(p, d) ==
  IF p > 21 /\ d <= 21 THEN "Dealer Wins!"
  ELSE IF d > 21 /\ p <= 21 THEN "You Win!"
  ELSE IF d > p /\ d <= 21 THEN "Dealer Wins!"
  ELSE IF d < p /\ p <= 21 THEN "You Win!"
  ELSE IF p > 21 /\ d > 21 THEN "No Winner!"
  ELSE "Draw!"

\* The result the settlement code sets for the totals p and d.
C2_Result(p, d) ==
  Settlement([Start EXCEPT !.playertotal = p, !.dealertotal = d]).lbl_winner

\* The rule list and the code agree on every pair of totals up to MaxTotal.
C2_AllPairs ==
  /\ \A p \in 0..MaxTotal, d \in 0..MaxTotal :
       /\ C2_Result(p, d) = C2_Rule(p, d)
       /\ C2_Result(p, d) = "Draw!" <=> (p = d /\ p <= 21)
  /\ C2_Result(22, 20) = "Dealer Wins!"
  /\ C2_Result(18, 22) = "You Win!"
  /\ C2_Result(19, 20) = "Dealer Wins!"
  /\ C2_Result(20, 18) = "You Win!"
  /\ C2_Result(22, 23) = "No Winner!"
  /\ C2_Result(20, 20) = "Draw!"

C2_Settlement ==
  running =>
    /\ lbl_winner # "" => lbl_winner = C2_Rule(playertotal, dealertotal)
    /\ Accepted("stand") => lbl_winner # ""
    /\ C2_AllPairs

\* A stand that ended with both sides bust.
C2_Witness ==
  /\ ev.ran = <<"stand">>
  /\ playertotal = 22
  /\ dealertotal = 23
  /\ lbl_winner = "No Winner!"

(***************************************************************************)
(* C3  An accepted stand adds exactly 1 to the player counter and leaves   *)
(* the dealer counter on "You Win!", adds exactly 1 to the dealer counter  *)
(* and leaves the player counter on "Dealer Wins!", and leaves both on     *)
(* "Draw!" and "No Winner!".                                               *)
(***************************************************************************)
C3_Tally ==
  [][ (running' /\ ev'.ran = <<"stand">>) =>
        /\ parse_i32(lbl_playercounter').ok
        /\ parse_i32(lbl_dealercounter').ok
        /\ lbl_winner' \in {"You Win!", "Dealer Wins!", "Draw!", "No Winner!"}
        /\ lbl_winner' = "You Win!" =>
             /\ PlayerCounter' = PlayerCounter + 1
             /\ DealerCounter' = DealerCounter
        /\ lbl_winner' = "Dealer Wins!" =>
             /\ DealerCounter' = DealerCounter + 1
             /\ PlayerCounter' = PlayerCounter
        /\ lbl_winner' \in {"Draw!", "No Winner!"} =>
             /\ PlayerCounter' = PlayerCounter
             /\ DealerCounter' = DealerCounter ]_vars

\* A stand the player has won: the player counter shows 1.
C3_Witness ==
  /\ ev.ran = <<"stand">>
  /\ lbl_winner = "You Win!"
  /\ lbl_playercounter = <<"1">>
  /\ lbl_dealercounter = <<"0">>

(***************************************************************************)
(* C4  Right after an accepted deal the dealer total is the value of the   *)
(* one card drawn for the dealer and the player total the sum of the       *)
(* values of the two cards drawn for the player, whatever the totals of    *)
(* the round before were.                                                  *)
(***************************************************************************)
C4_DealTotals ==
  (running /\ Accepted("deal")) =>
    /\ ev.ran = <<"deal">>
    /\ Len(ev.drawn) = 3
    /\ first_card = cards[ev.drawn[1]]
    /\ second_card = cards[ev.drawn[2]]
    /\ dealer_card1 = cards[ev.drawn[3]]
    /\ playertotal = scores[ev.drawn[1]] + scores[ev.drawn[2]]
    /\ dealertotal = scores[ev.drawn[3]]

\* A deal of a later round: dealer_card4 still shows a card of an earlier
\* round, whose totals were at least 4.
C4_Witness ==
  /\ ev.ran = <<"deal">>
  /\ dealer_card4 # Empty
  /\ playertotal = 4
  /\ dealertotal = 2

(***************************************************************************)
(* C5  In a stand the dealer gets at most four cards (the second to the    *)
(* fifth), and every card after the second is added only when the dealer   *)
(* total just before it was below 16.                                      *)
(***************************************************************************)
C5_DealerStops ==
  (running /\ Accepted("stand")) =>
    /\ Len(ev.drawn) \in 1..4
    /\ \A k \in 2..Len(ev.drawn) : dealertotal - PointsFrom(ev.drawn, k) < 16
    /\ dealertotal - PointsFrom(ev.drawn, 1) \in 2..11

\* A stand in which the dealer took a fifth card.
C5_Witness ==
  ev.ran = <<"stand">> /\ Len(ev.drawn) = 4 /\ dealer_card5 = cards[ev.drawn[4]]

(***************************************************************************)
(* C6  Once three hits have been accepted in a round no further hit is     *)
(* accepted in it, whatever the player total: a Hit click in PlayerTurn    *)
(* with the hit counter at 3 leaves the player total, the five player      *)
(* slots and the hit counter as they were.                                 *)
(***************************************************************************)
C6_HitCap ==
  [][ (running' /\ Phase = "PlayerTurn" /\ numofhits = 3) =>
        /\ ~Accepted("hit")'
        /\ ev'.click = "hit" =>
             /\ playertotal' = playertotal
             /\ PlayerSlots' = PlayerSlots
             /\ numofhits' = numofhits ]_vars

\* A fourth Hit click, rejected although the total (five Twos) is only 10.
C6_Witness ==
  /\ Phase = "PlayerTurn"
  /\ numofhits = 3
  /\ playertotal = 10
  /\ ev.click = "hit"
  /\ ev.ran = <<>>

(***************************************************************************)
(* C7  After an accepted hit of the round, a player total above 20 means   *)
(* that no further hit is accepted in that round.                          *)
(***************************************************************************)
C7_HitStopsAbove20 ==
  [][ (running' /\ Phase = "PlayerTurn" /\ numofhits >= 1 /\ playertotal > 20) =>
        ~Accepted("hit")' ]_vars

\* A Hit click rejected after a first hit that took the total to 21 or 22,
\* where the hit handler itself leaves the button enabled.
C7_Witness ==
  /\ Phase = "PlayerTurn"
  /\ numofhits = 1
  /\ playertotal \in {21, 22}
  /\ ev.click = "hit"
  /\ ev.ran = <<>>

(***************************************************************************)
(* C8  A player total above 20 right after the deal is 21 or 22, and no    *)
(* hit is accepted in that round.                                          *)
(***************************************************************************)
C8_NoHitAfterDeal21 ==
  [][ running' =>
        /\ (Accepted("deal")' /\ playertotal' > 20) => playertotal' \in {21, 22}
        /\ (Phase = "PlayerTurn" /\ numofhits = 0 /\ playertotal > 20) =>
             (~Accepted("hit")' /\ numofhits' = 0) ]_vars

\* A Hit click rejected in a round dealt at 21.
C8_Witness ==
  /\ Phase = "PlayerTurn"
  /\ numofhits = 0
  /\ playertotal = 21
  /\ third_card = Empty
  /\ ev.click = "hit"
  /\ ev.ran = <<>>

(***************************************************************************)
(* C9  As claimed: after an accepted replay the player total, the dealer   *)
(* total and the hit counter are zero and both tally counters are what     *)
(* they were.                                                              *)
(***************************************************************************)
C9_ReplayZeroes ==
  [][ (running' /\ Accepted("replay")') =>
        /\ playertotal' = 0
        /\ dealertotal' = 0
        /\ numofhits' = 0
        /\ lbl_playercounter' = lbl_playercounter
        /\ lbl_dealercounter' = lbl_dealercounter ]_vars

(***************************************************************************)
(* C9, as amended: after an accepted replay the hit counter is zero, both  *)
(* score labels are empty and both tally counters are what they were; the  *)
(* player total and the dealer total keep the values of the finished round *)
(* (the next deal assigns them).                                           *)
(***************************************************************************)
C9_ReplayKeepsTotals ==
  [][ (running' /\ Accepted("replay")') =>
        /\ numofhits' = 0
        /\ lbl_playerscore' = <<>>
        /\ lbl_dealerscore' = <<>>
        /\ playertotal' = playertotal
        /\ dealertotal' = dealertotal
        /\ lbl_playercounter' = lbl_playercounter
        /\ lbl_dealercounter' = lbl_dealercounter ]_vars

\* A replay after a round the player lost by going over 22 with a hit.
C9_Witness ==
  /\ ev.ran = <<"replay">>
  /\ playertotal > 22
  /\ dealertotal > 0
  /\ numofhits = 0
  /\ lbl_playerscore = <<>>
  /\ lbl_dealercounter = <<"1">>

(***************************************************************************)
(* C10  As claimed: after an accepted replay each of the five player slots *)
(* and the five dealer slots is empty.                                     *)
(***************************************************************************)
C10_ReplayEmptiesSlots ==
  (running /\ Accepted("replay")) =>
    \A k \in 1..5 : PlayerSlots[k] = Empty /\ DealerSlots[k] = Empty

(***************************************************************************)
(* C11  The score table entry at every index of a populated card is the    *)
(* value of the rank the card table names there: Two..Ten are 2..10, Jack, *)
(* Queen and King are 10, Ace is 11, each rank in all four suits; so the   *)
(* totals of a deal are the values of the ranks shown in the slots.        *)
(***************************************************************************)
C11_RankValue(rank) ==
  CASE rank = "Two" -> 2
    [] rank = "Three" -> 3
    [] rank = "Four" -> 4
    [] rank = "Five" -> 5
    [] rank = "Six" -> 6
    [] rank = "Seven" -> 7
    [] rank = "Eight" -> 8
    [] rank = "Nine" -> 9
    [] rank = "Ten" -> 10
    [] rank = "Jack" -> 10
    [] rank = "Queen" -> 10
    [] rank = "King" -> 10
    [] rank = "Ace" -> 11

C11_Ranks ==
  { "Two", "Three", "Four", "Five", "Six", "Seven", "Eight", "Nine", "Ten",
    "Jack", "Queen", "King", "Ace" }

C11_Table ==
  /\ \A i \in 0..51 :
       cards[i][1] \in C11_Ranks /\ scores[i] = C11_RankValue(cards[i][1])
  /\ \A r \in C11_Ranks :
       { cards[i][2] : i \in { j \in 0..51 : cards[j][1] = r } }
         = {"clubs", "hearts", "spades", "diamonds"}

C11_CardValues ==
  /\ C11_Table
  /\ (running /\ Accepted("deal")) =>
       /\ playertotal = C11_RankValue(first_card[1]) + C11_RankValue(second_card[1])
       /\ dealertotal = C11_RankValue(dealer_card1[1])

\* A deal of an Ace and a Ten to the player and an Ace to the dealer.
C11_Witness ==
  /\ ev.ran = <<"deal">>
  /\ first_card[1] = "Ace"
  /\ second_card[1] = "Ten"
  /\ dealer_card1[1] = "Ace"
  /\ playertotal = 21
  /\ dealertotal = 11

\* The parts of the state a claim about "no change" speaks of.
RoundState ==
  << playertotal, dealertotal, PlayerSlots, DealerSlots, numofhits,
     lbl_playercounter, lbl_dealercounter, lbl_winner >>

ControlFlags == <<btn_deal, btn_hit, btn_stand, btn_replay>>

(***************************************************************************)
(* C12  A Deal click in the iteration right after an accepted deal changes *)
(* nothing: totals, slots, hit counter, tallies, result and control flags  *)
(* are what they were before the click.                                    *)
(***************************************************************************)
C12_SecondDealNoop ==
  [][ (running /\ Accepted("deal") /\ ev'.click = "deal")
        => /\ ev'.ran = <<>>
           /\ RoundState' = RoundState
           /\ ControlFlags' = ControlFlags ]_vars

(***************************************************************************)
(* C13  A Hit click draws no card and changes no total, slot, hit counter, *)
(* tally or result when the round is not in PlayerTurn, when three hits    *)
(* have been taken, or when hitting is disabled (the flag is off or the    *)
(* player total is above 20).  A Stand click outside PlayerTurn draws no   *)
(* card and changes nothing, the control flags included.                   *)
(***************************************************************************)
C13_HitDisabled ==
  Phase # "PlayerTurn" \/ numofhits = 3 \/ ~btn_hit \/ playertotal > 20

C13_RejectedHitStand ==
  [][ /\ (running /\ C13_HitDisabled /\ ev'.click = "hit")
          => /\ ev'.ran = <<>>
             /\ ev'.drawn = <<>>
             /\ RoundState' = RoundState
      /\ (running /\ Phase # "PlayerTurn" /\ ev'.click = "stand")
          => /\ ev'.ran = <<>>
             /\ ev'.drawn = <<>>
             /\ RoundState' = RoundState
             /\ ControlFlags' = ControlFlags ]_vars

\* A Hit click that was refused in PlayerTurn after the third hit.
C13_Witness ==
  /\ ev.click = "hit"
  /\ ev.ran = <<>>
  /\ Phase = "PlayerTurn"
  /\ numofhits = 3
  /\ fifth_card # Empty

(***************************************************************************)
(* C14  A Play-Again click outside Settled (Idle at program start, Idle    *)
(* after a replay, PlayerTurn) changes no part of the round state: totals, *)
(* slots, hit counter, result, tallies and control flags stay as they were.*)
(***************************************************************************)
C14_ReplayOutsideSettledNoop ==
  [][ (running /\ Phase # "Settled" /\ ev'.click = "replay")
        => /\ RoundState' = RoundState
           /\ ControlFlags' = ControlFlags ]_vars

(***************************************************************************)
(* C15  In every reachable state the hit count is 0, 1, 2 or 3, the totals *)
(* are not negative, and each side holds at most five cards: the player's  *)
(* cards of a round are the 2 + numofhits filled player slots and make up  *)
(* the player total; the dealer's cards at the end of a stand are the      *)
(* first 1 + (draws read) dealer slots and make up the dealer total.       *)
(***************************************************************************)
C15_Held(q) == Cardinality({ i \in 1..5 : q[i] # Empty })

\* The points of the cards in the first k slots of q.
C15_Points(q, k) ==
  LET v(i) == IF i <= k THEN C11_RankValue(q[i][1]) ELSE 0
  IN v(1) + v(2) + v(3) + v(4) + v(5)

C15_Bounds ==
  /\ numofhits \in 0..3
  /\ playertotal >= 0
  /\ dealertotal >= 0
  /\ Phase \in {"PlayerTurn", "Settled"} =>
       /\ C15_Held(PlayerSlots) = 2 + numofhits
       /\ 2 + numofhits <= 5
       /\ \A i \in 1..5 : PlayerSlots[i] # Empty <=> i <= 2 + numofhits
       /\ playertotal = C15_Points(PlayerSlots, 2 + numofhits)
  /\ (running /\ Accepted("stand")) =>
       /\ 1 + Len(ev.drawn) <= 5
       /\ \A i \in 1..(1 + Len(ev.drawn)) : DealerSlots[i] # Empty
       /\ dealertotal = C15_Points(DealerSlots, 1 + Len(ev.drawn))

\* A stand that ends with five cards on each side.
C15_Witness ==
  /\ ev.ran = <<"stand">>
  /\ numofhits = 3
  /\ C15_Held(PlayerSlots) = 5
  /\ Len(ev.drawn) = 4
  /\ C15_Held(DealerSlots) = 5

C17_HitDrawsOne ==
  [][ (running' /\ Accepted("hit")') =>
        /\ ev'.ran = <<"hit">>
        /\ Len(ev'.drawn) = 1
        /\ numofhits' = numofhits + 1
        /\ numofhits' \in 1..3
        /\ PlayerSlots[numofhits' + 2] = Empty
        /\ PlayerSlots'[numofhits' + 2] = cards[ev'.drawn[1]]
        /\ \A i \in 1..5 : i # numofhits' + 2 => PlayerSlots'[i] = PlayerSlots[i]
        /\ DealerSlots' = DealerSlots
        /\ playertotal' = playertotal + scores[ev'.drawn[1]]
        /\ dealertotal' = dealertotal ]_vars

\* The third hit of a round, a Ten, in the fifth slot.
C17_Witness ==
  /\ ev.ran = <<"hit">>
  /\ numofhits = 3
  /\ Len(ev.drawn) = 1
  /\ fifth_card = cards[ev.drawn[1]]
  /\ fifth_card[1] = "Ten"
  /\ playertotal = C15_Points(PlayerSlots, 5)

(***************************************************************************)
(* C18  Right after every accepted deal, in the first round and in every   *)
(* later one, the hit counter is 0 and the result label is empty.          *)
(***************************************************************************)
C18_DealStartsClean ==
  (running /\ Accepted("deal")) =>
    /\ numofhits = 0
    /\ lbl_winner = ""
    /\ third_card = Empty
    /\ fourth_card = Empty
    /\ fifth_card = Empty

\* A deal of a later round: an earlier round left a fifth dealer card.
C18_Witness ==
  /\ ev.ran = <<"deal">>
  /\ dealer_card5 # Empty
  /\ numofhits = 0
  /\ lbl_winner = ""

(***************************************************************************)
(* C19  Every accepted stand gives the dealer a second card whatever the   *)
(* total, then goes on adding cards as long as the dealer total is below   *)
(* 16 and the dealer has fewer than five cards.  When it ends the dealer   *)
(* holds between 2 and 5 cards, the added cards are in slots 2.. in the    *)
(* order drawn, the total grew by their values, and the dealer holds fewer *)
(* than 5 cards only if the total is 16 or more.                           *)
(***************************************************************************)
C19_DealerPlaysOut ==
  [][ (running' /\ Accepted("stand")') =>
        LET q == ev'.drawn
            n == 1 + Len(q)
        IN /\ ev'.ran = <<"stand">>
           /\ n \in 2..5
           /\ dealer_card1' = dealer_card1
           /\ \A k \in 1..Len(q) : DealerSlots'[k + 1] = cards[q[k]]
           /\ dealertotal' = dealertotal + PointsFrom(q, 1)
           /\ n < 5 => dealertotal' >= 16
           /\ \A k \in 2..Len(q) : dealertotal' - PointsFrom(q, k) < 16 ]_vars

\* A stand that ends below 16 because the dealer has five cards.
C19_Witness ==
  /\ ev.ran = <<"stand">>
  /\ Len(ev.drawn) = 4
  /\ dealertotal < 16
  /\ C15_Held(DealerSlots) = 5

(***************************************************************************)
(* C20  Every card draw can yield each of the 52 populated entries of the  *)
(* card table (indices 0..51), whatever was drawn before: the set of       *)
(* outcomes of a draw of the running program is the whole deck.            *)
(***************************************************************************)
C20_EveryCardDrawable ==
  running =>
    \A i \in 0..51 : cards[i] # <<"empty", "">> => i \in gen_range(1, 52)

(***************************************************************************)
(* C21  In every reachable state of an open round (a deal was accepted and *)
(* no result is set), whatever the player total and the hit count, Stand   *)
(* is enabled and a Stand click is accepted and ends in Settled.  No       *)
(* reachable state of the running program is stuck: the state is Idle,     *)
(* PlayerTurn or Settled, Deal is enabled in Idle and Play Again in        *)
(* Settled, and a click on an enabled Deal, Stand or Play Again (or on Hit *)
(* with a total of at most 20) runs its handler.                           *)
(***************************************************************************)
C21_RoundOpen == running /\ ~btn_deal /\ lbl_winner = ""

C21_SomeButton ==
  running =>
    /\ Phase \in {"Idle", "PlayerTurn", "Settled"}
    /\ btn_deal \/ btn_stand \/ btn_replay
    /\ Phase = "Idle" => btn_deal
    /\ Phase = "Settled" => btn_replay

C21_NeverStuck ==
  /\ []C21_SomeButton
  /\ [](C21_RoundOpen => btn_stand)
  /\ [][ /\ (C21_RoundOpen /\ ev'.click = "stand")
             => ev'.ran = <<"stand">> /\ Phase' = "Settled"
         /\ (running /\ btn_deal /\ ev'.click = "deal")
             => ev'.ran = <<"deal">> /\ Phase' = "PlayerTurn"
         /\ (running /\ btn_replay /\ ev'.click = "replay")
             => ev'.ran = <<"replay">> /\ Phase' = "Idle"
         /\ (running /\ btn_hit /\ playertotal <= 20 /\ ev'.click = "hit")
             => ev'.ran = <<"hit">> /\ Phase' = "PlayerTurn" ]_vars

\* A stand accepted and settled with the player at 27 after three hits.
C21_Witness ==
  /\ ev.ran = <<"stand">>
  /\ Phase = "Settled"
  /\ playertotal > 21
  /\ numofhits = 3

(***************************************************************************)
(* C22  A stand is one step: the iteration that accepts it runs no other   *)
(* handler, makes all its dealer draws and ends in Settled, so at the end  *)
(* of no iteration is the program in DealerTurn (Stand disabled, Deal      *)
(* disabled, no result set).                                               *)
(***************************************************************************)
C22_StandAtomic ==
  running =>
    /\ ~(~btn_stand /\ ~btn_deal /\ lbl_winner = "")
    /\ Phase # "DealerTurn"
    /\ Accepted("stand") =>
         /\ ev.ran = <<"stand">>
         /\ Len(ev.drawn) \in 1..4
         /\ Phase = "Settled"
         /\ btn_replay /\ ~btn_hit

\* A stand with four dealer draws, settled as a player win in its iteration.
C22_Witness ==
  /\ ev.ran = <<"stand">>
  /\ Len(ev.drawn) = 4
  /\ lbl_winner = "You Win!"
  /\ Phase = "Settled"

(***************************************************************************)
(* C23  The rectangles of Deal, Hit, Stand and Play Again (and Exit) are   *)
(* pairwise disjoint, and no loop iteration runs two handlers: at the end  *)
(* of every iteration at most one of deal, hit, stand, replay has run, and *)
(* it is the one whose button was clicked.                                 *)
(***************************************************************************)
C23_Overlap(a, b) ==
  /\ a.x < b.x + b.w
  /\ b.x < a.x + a.w
  /\ a.y < b.y + b.h
  /\ b.y < a.y + a.h

C23_Rects == <<rect_exit, rect_deal, rect_hit, rect_stand, rect_replay>>

C23_Disjoint ==
  \A i, j \in 1..5 : i # j => ~C23_Overlap(C23_Rects[i], C23_Rects[j])

C23_OneHandler ==
  /\ C23_Disjoint
  /\ Len(ev.ran) <= 1
  /\ ~(Accepted("deal") /\ Accepted("hit"))
  /\ \A k \in 1..Len(ev.ran) : ev.ran[k] = ev.click

\* A deal that enabled Hit for a total of at most 20; no hit ran with it.
C23_Witness ==
  /\ ev.click = "deal"
  /\ ev.ran = <<"deal">>
  /\ btn_hit
  /\ playertotal <= 20
  /\ third_card = Empty

(***************************************************************************)
(* C24  A hit is accepted only when the player total before it is at most  *)
(* 20, and a dealer card after the second is added only below 16; so in    *)
(* every reachable state the player total is at most 31 and the dealer     *)
(* total at most 26, far from the limits of a 32-bit integer.              *)
(***************************************************************************)
C24_TotalBounds ==
  /\ playertotal \in 0..31
  /\ dealertotal \in 0..26
  /\ (running /\ Accepted("hit")) =>
       /\ Len(ev.drawn) = 1
       /\ playertotal - scores[ev.drawn[1]] <= 20
  /\ (running /\ Accepted("deal")) => playertotal <= 22 /\ dealertotal <= 11

\* A settled round with both totals at their largest.
C24_Witness ==
  /\ Phase = "Settled"
  /\ playertotal = 31
  /\ dealertotal = 26

(***************************************************************************)
(* C25  No draw selects the empty placeholder (index 52, value 0) or an    *)
(* index outside the card and score tables: every index a draw can yield,  *)
(* and every index drawn in an iteration, is an index of both tables, and  *)
(* its card adds a value between 2 and 11 to a total.                      *)
(***************************************************************************)
C25_DrawRange ==
  \A i \in gen_range(1, 52) :
    /\ i \in DOMAIN cards
    /\ i \in DOMAIN scores
    /\ i # 52
    /\ cards[i] # <<"empty", "">>
    /\ scores[i] \in 2..11

C25_DrawsInBounds ==
  /\ C25_DrawRange
  /\ \A k \in 1..Len(ev.drawn) :
       /\ ev.drawn[k] \in gen_range(1, 52)
       /\ ev.drawn[k] \in 0..51
       /\ scores[ev.drawn[k]] \in 2..11
  /\ \A i \in 1..5 :
       /\ PlayerSlots[i] # <<"empty", "">>
       /\ DealerSlots[i] # <<"empty", "">>

\* A deal whose three draws include the smallest and the largest value.
C25_Witness ==
  /\ ev.ran = <<"deal">>
  /\ Len(ev.drawn) = 3
  /\ \E k \in 1..3 : scores[ev.drawn[k]] = 2
  /\ \E k \in 1..3 : scores[ev.drawn[k]] = 11

(***************************************************************************)
(* C26  The result label is non-empty exactly while the round is settled   *)
(* (Deal, Hit and Stand disabled, Play Again enabled): it becomes          *)
(* non-empty only in an accepted stand, which sets it to the result of the *)
(* rule list for the totals the stand ends with, and becomes empty again   *)
(* only in an accepted replay; while it is non-empty neither total nor the *)
(* text changes.                                                           *)
(***************************************************************************)
C26_SettledFlags == ~btn_deal /\ ~btn_hit /\ ~btn_stand /\ btn_replay

C26_ResultWhileSettled ==
  /\ [](running => (lbl_winner # "" <=> C26_SettledFlags))
  /\ [](running => (lbl_winner # "" <=> (~btn_deal /\ ~btn_stand)))
  /\ [][ running' =>
           /\ (lbl_winner = "" /\ lbl_winner' # "") => Accepted("stand")'
           /\ (lbl_winner # "" /\ lbl_winner' = "") => Accepted("replay")'
           /\ Accepted("stand")' =>
                /\ lbl_winner = ""
                /\ lbl_winner' = C2_Rule(playertotal', dealertotal')
           /\ Accepted("replay")' => lbl_winner' = ""
           /\ lbl_winner # "" =>
                /\ playertotal' = playertotal
                /\ dealertotal' = dealertotal
                /\ lbl_winner' \in {"", lbl_winner} ]_vars

\* A Hit click refused in a round settled as a draw at 20.
C26_Witness ==
  /\ ev.click = "hit"
  /\ ev.ran = <<>>
  /\ lbl_winner = "Draw!"
  /\ playertotal = 20
  /\ dealertotal = 20

(***************************************************************************)
(* C27  At the end of every loop iteration: Hit enabled implies Stand      *)
(* enabled; Deal and Stand are never both enabled; Stand and Play Again    *)
(* are never both enabled; Deal enabled implies Hit disabled.              *)
(***************************************************************************)
C27_FlagInvariants ==
  running =>
    /\ btn_hit => btn_stand
    /\ ~(btn_deal /\ btn_stand)
    /\ ~(btn_stand /\ btn_replay)
    /\ btn_deal => ~btn_hit

\* The flags a deal leaves: Hit and Stand on, Deal and Play Again off.
C27_Witness ==
  /\ ev.ran = <<"deal">>
  /\ ControlFlags = <<FALSE, TRUE, TRUE, FALSE>>

(***************************************************************************)
(* C28  An accepted hit leaves the dealer total, the dealer slots, both    *)
(* tally counters and the result label unchanged; an accepted stand leaves *)
(* the player total, the player slots and the hit counter unchanged; an    *)
(* accepted deal leaves both tally counters unchanged.                     *)
(***************************************************************************)
C28_FrameEffects ==
  [][ running' =>
        /\ Accepted("hit")' =>
             /\ dealertotal' = dealertotal
             /\ DealerSlots' = DealerSlots
             /\ lbl_dealerscore' = lbl_dealerscore
             /\ lbl_playercounter' = lbl_playercounter
             /\ lbl_dealercounter' = lbl_dealercounter
             /\ lbl_winner' = lbl_winner
        /\ Accepted("stand")' =>
             /\ playertotal' = playertotal
             /\ PlayerSlots' = PlayerSlots
             /\ lbl_playerscore' = lbl_playerscore
             /\ numofhits' = numofhits
        /\ Accepted("deal")' =>
             /\ lbl_playercounter' = lbl_playercounter
             /\ lbl_dealercounter' = lbl_dealercounter ]_vars

\* A stand accepted after two hits: the player's side is as the hits left it.
C28_Witness ==
  /\ ev.ran = <<"stand">>
  /\ numofhits = 2
  /\ fourth_card # Empty
  /\ fifth_card = Empty
  /\ playertotal = C15_Points(PlayerSlots, 4)

(***************************************************************************)
(* C29  While the program runs each tally label holds the decimal text of  *)
(* a non-negative integer (parse::<i32>() succeeds on it and formatting    *)
(* the value gives the text back), so the stand handler never panics.      *)
(* Both tallies start at 0; a tally grows by exactly 1 in an iteration     *)
(* whose stand settles the round for its side and is unchanged in every    *)
(* other iteration; and a stand is accepted only in an open round, which   *)
(* it closes, so each round is counted at most once.                       *)
(***************************************************************************)
C29_CounterText(t) ==
  LET r == parse_i32(t)
  IN r.ok /\ r.val >= 0 /\ format(r.val) = t

C29_Parseable ==
  /\ ~panicked
  /\ running => C29_CounterText(lbl_playercounter)
  /\ running => C29_CounterText(lbl_dealercounter)

====
